---- MODULE Spec2Model ----
(***************************************************************************)
(* Model of pkg/volumeclaimbinder/types.go: persistentVolumeOrderedIndex,  *)
(* a cache.Indexer of persistent volumes indexed by their access modes,    *)
(* whose queries sort one index partition by capacity and binary-search it *)
(* for the volume that fits a claim.                                       *)
(***************************************************************************)
EXTENDS Naturals, Sequences, FiniteSets

\* The keys (MetaNamespaceKeyFunc values) of the volumes a caller may store.
\* A partition holds at most three volumes; sort.Sort is an insertion sort for
\* slices this short.
Names == {"pv1", "pv2", "pv3"}

\* The name of no volume.
NoName == ""

\* The value of the history variable when no history is kept.
Untracked == "untracked"

\* Capacities and requested quantities range over 1..MaxCap.
MaxCap == 3

Quantities == 1..MaxCap

\* Spec.AccessModes slices stored on volumes.
VolumeModes == {<<"ReadWriteOnce">>, <<"ReadWriteOnce", "ReadOnlyMany">>}

\* Spec.AccessModes slices a caller may request: the same sets, in either order.
RequestModes == VolumeModes \cup {<<"ReadOnlyMany", "ReadWriteOnce">>}

\* The error values in play.  NoErr is Go's nil error; IndexErrors are the
\* errors an indexed lookup of the store can report.
NoErr == "nil"
IndexErrors == {"index does not exist", "index function failed"}

\* api.PersistentVolume, reduced to the fields types.go reads: the object's key
\* (name), Spec.AccessModes, Spec.Capacity[storage] and whether Spec.ClaimRef
\* is non-nil.
PersistentVolume(name, modes, cap, claimRef) ==
    [name |-> name, modes |-> modes, cap |-> cap, claimRef |-> claimRef]

\* The nil *api.PersistentVolume.
NilPV == PersistentVolume(NoName, <<>>, 0, FALSE)

StoredVolumes ==
    { PersistentVolume(n, m, c, b) :
        n \in Names, m \in VolumeModes, c \in Quantities, b \in BOOLEAN }

VARIABLES
    store,   \* the Indexer's items: key -> stored volume
    ret,     \* the outcome of the query in progress, NoCall between calls
    moved    \* history: the key whose stored volume the latest Add/Update
             \* replaced by one of another signature, NoName if it did not;
             \* Untracked in the specification that keeps no history

vars == <<store, ret, moved>>

-----------------------------------------------------------------------------
\* Helpers on sequences.

Contains(modes, mode) == \E i \in 1..Len(modes) : modes[i] = mode

\* All orders in which the elements of the finite set S can be handed back.
Orders(S) ==
    { s \in [1..Cardinality(S) -> S] : \A i, j \in 1..Cardinality(S) : s[i] = s[j] => i = j }

Swap(v, i, j) == [v EXCEPT ![i] = v[j], ![j] = v[i]]

-----------------------------------------------------------------------------
\* volume.GetAccessModesAsString: the signature lists the abbreviations of the
\* modes present, in a fixed order, whatever the order of the input slice.
GetAccessModesAsString(modes) ==
    (IF Contains(modes, "ReadWriteOnce") THEN <<"RWO">> ELSE <<>>)
    \o (IF Contains(modes, "ReadOnlyMany") THEN <<"ROX">> ELSE <<>>)
    \o (IF Contains(modes, "ReadWriteMany") THEN <<"RWX">> ELSE <<>>)

\* Mutant of accessModesIndexFunc: the index key is taken from the first access
\* mode alone.
accessModesIndexFunc_FirstMode(pv) == GetAccessModesAsString(SubSeq(pv.modes, 1, 1))

\* accessModesIndexFunc, on a *api.PersistentVolume (the only objects stored).
accessModesIndexFunc(pv) == GetAccessModesAsString(pv.modes)

\* The set of stored volumes the "accessmodes" index holds under the index
\* key of the probe object.
IndexSet(items, probe) ==
    { items[k] : k \in { n \in DOMAIN items :
                           accessModesIndexFunc(items[n]) = accessModesIndexFunc(probe) } }

-----------------------------------------------------------------------------
\* matchStorageCapacity is a matchPredicate used to sort and find volumes.
matchStorageCapacity(pvA, pvB) ==
    IF pvA.claimRef
    THEN FALSE
    ELSE pvA.cap <= pvB.cap

\* Mutant of filterBoundVolumes: the claim references are not looked at.
filterBoundVolumes_Unfiltered(compareThis, toThis) ==
    compareThis.cap <= toThis.cap

\* filterBoundVolumes filters bound volumes before comparing storage capacity.
filterBoundVolumes(compareThis, toThis) ==
    IF compareThis.claimRef \/ toThis.claimRef
    THEN FALSE
    ELSE matchStorageCapacity(compareThis, toThis)

\* The matchPredicate values passed to Find.
MatchPredicates == {"matchStorageCapacity", "filterBoundVolumes"}

ApplyPredicate(matchPredicate, compareThis, toThis) ==
    IF matchPredicate = "filterBoundVolumes"
    THEN filterBoundVolumes(compareThis, toThis)
    ELSE matchStorageCapacity(compareThis, toThis)

\* Mutant of Less: the two positions are compared the wrong way round.
Less_Swapped(volumes, i, j) == matchStorageCapacity(volumes[j], volumes[i])

\* byCapacity.Less(i, j), on 1-based positions.
Less(volumes, i, j) == matchStorageCapacity(volumes[i], volumes[j])

\* sort.Sort(byCapacity{volumes}).  For the short slices of the model sort.Sort
\* is insertionSort:
\*   for i := a + 1; i < b; i++ {
\*       for j := i; j > a && data.Less(j, j-1); j-- { data.Swap(j, j-1) } }
RECURSIVE InsertionInner(_, _)
InsertionInner(volumes, j) ==
    IF j > 1 /\ Less(volumes, j, j - 1)
    THEN InsertionInner(Swap(volumes, j, j - 1), j - 1)
    ELSE volumes

RECURSIVE InsertionOuter(_, _)
InsertionOuter(volumes, i) ==
    IF i > Len(volumes)
    THEN volumes
    ELSE InsertionOuter(InsertionInner(volumes, i), i + 1)

SortByCapacity(volumes) == InsertionOuter(volumes, 2)

\* sort.Search(len(volumes), func(i) { return matchPredicate(pv, volumes[i]) }),
\* with Go's 0-based i, j, h:
\*   i, j := 0, n
\*   for i < j { h := i + (j-i)/2; if !f(h) { i = h + 1 } else { j = h } }
\*   return i
RECURSIVE SearchLoop(_, _, _, _, _)
SearchLoop(volumes, pv, matchPredicate, i, j) ==
    IF i < j
    THEN LET h == i + ((j - i) \div 2) IN
         IF ~ApplyPredicate(matchPredicate, pv, volumes[h + 1])
         THEN SearchLoop(volumes, pv, matchPredicate, h + 1, j)
         ELSE SearchLoop(volumes, pv, matchPredicate, i, h)
    ELSE i

Search(volumes, pv, matchPredicate) ==
    SearchLoop(volumes, pv, matchPredicate, 0, Len(volumes))

-----------------------------------------------------------------------------
\* Mutant of ListByAccessModes: the copy loop reads objs[0] at every position.
ListByAccessModes_FirstObj(objs, lookupErr) ==
    IF lookupErr # NoErr
    THEN [volumes |-> <<>>, isNil |-> TRUE, err |-> lookupErr, calls |-> <<"Index">>]
    ELSE [volumes |-> SortByCapacity([i \in 1..Len(objs) |-> objs[1]]),
          isNil   |-> FALSE,
          err     |-> NoErr,
          calls   |-> <<"Index", "Sort">>]

\* Mutant of ListByAccessModes: the lookup error is dropped and the (empty)
\* objs are sorted and returned.
ListByAccessModes_DropErr(objs, lookupErr) ==
    [volumes |-> SortByCapacity([i \in 1..Len(objs) |-> objs[i]]),
     isNil   |-> FALSE,
     err     |-> NoErr,
     calls   |-> <<"Index", "Sort">>]

\* ListByAccessModes, given what pvIndex.Index("accessmodes", pv) returned:
\* objs and lookupErr.  The result carries the returned slice (isNil tells the
\* nil slice from an empty one), the returned error and the calls made.
ListByAccessModes(objs, lookupErr) ==
    IF lookupErr # NoErr
    THEN [volumes |-> <<>>, isNil |-> TRUE, err |-> lookupErr, calls |-> <<"Index">>]
    ELSE [volumes |-> SortByCapacity([i \in 1..Len(objs) |-> objs[i]]),
          isNil   |-> FALSE,
          err     |-> NoErr,
          calls   |-> <<"Index", "Sort">>]

\* Mutant of Find: an index past the end is clamped to the last volume.
Find_Clamped(pv, matchPredicate, objs, lookupErr) ==
    LET listed == ListByAccessModes(objs, lookupErr) IN
    IF listed.err # NoErr
    THEN [vol |-> NilPV, err |-> listed.err, volumes |-> <<>>, isNil |-> TRUE,
          calls |-> listed.calls]
    ELSE LET volumes == listed.volumes
             i == Search(volumes, pv, matchPredicate)
         IN [vol     |-> IF i < Len(volumes) THEN volumes[i + 1]
                         ELSE IF Len(volumes) > 0 THEN volumes[Len(volumes)] ELSE NilPV,
             err     |-> NoErr,
             volumes |-> volumes,
             isNil   |-> FALSE,
             calls   |-> Append(listed.calls, "Search")]

\* Find, for the probe pv and the named matchPredicate.
Find(pv, matchPredicate, objs, lookupErr) ==
    LET listed == ListByAccessModes(objs, lookupErr) IN
    IF listed.err # NoErr
    THEN [vol |-> NilPV, err |-> listed.err, volumes |-> <<>>, isNil |-> TRUE,
          calls |-> listed.calls]
    ELSE LET volumes == listed.volumes
             i == Search(volumes, pv, matchPredicate)
         IN [vol     |-> IF i < Len(volumes) THEN volumes[i + 1] ELSE NilPV,
             err     |-> NoErr,
             volumes |-> volumes,
             isNil   |-> FALSE,
             calls   |-> Append(listed.calls, "Search")]

\* The probe volume FindByAccessModesAndStorageCapacity builds.
Probe(modes, qty) == PersistentVolume(NoName, modes, qty, FALSE)

FindByAccessModesAndStorageCapacity(modes, qty, objs, lookupErr) ==
    Find(Probe(modes, qty), "filterBoundVolumes", objs, lookupErr)

\* claim is [modes, request]: Spec.AccessModes and Spec.Resources.Requests[storage].
FindBestMatchForClaim(claim, objs, lookupErr) ==
    FindByAccessModesAndStorageCapacity(claim.modes, claim.request, objs, lookupErr)

-----------------------------------------------------------------------------
\* State machine.  The index has no internal concurrency: its caller runs one
\* operation at a time, so an operation starts only when no call is in progress.

NoCall ==
    [op |-> "none", pv |-> NilPV, pred |-> "none", objs |-> <<>>, lookupErr |-> NoErr,
     volumes |-> <<>>, isNil |-> TRUE, vol |-> NilPV, err |-> NoErr, calls |-> <<>>]

Init ==
    /\ store = << >>
    /\ ret = NoCall
    /\ moved = Untracked

\* The same initial state, with the history of replacements kept.
InitHistory ==
    /\ store = << >>
    /\ ret = NoCall
    /\ moved = NoName

\* The items after the object is stored under its key, replacing any object
\* already stored under that key; the index is derived from the items.
Put(items, pv) ==
    [n \in (DOMAIN items) \cup {pv.name} |-> IF n = pv.name THEN pv ELSE items[n]]

\* The history after pv is stored over items.
Resigned(items, pv) ==
    IF moved = Untracked
    THEN Untracked
    ELSE IF pv.name \in DOMAIN items
            /\ GetAccessModesAsString(items[pv.name].modes) # GetAccessModesAsString(pv.modes)
         THEN pv.name
         ELSE NoName

\* cache.Store Add.
Add(pv) ==
    /\ ret = NoCall
    /\ store' = Put(store, pv)
    /\ moved' = Resigned(store, pv)
    /\ UNCHANGED ret

\* cache.Store Update.
Update(pv) ==
    /\ ret = NoCall
    /\ store' = Put(store, pv)
    /\ moved' = Resigned(store, pv)
    /\ UNCHANGED ret

\* cache.Store Delete: the object's key is removed, if present.
Delete(pv) ==
    /\ ret = NoCall
    /\ store' = [n \in (DOMAIN store) \ {pv.name} |-> store[n]]
    /\ moved' = IF moved = Untracked THEN Untracked ELSE NoName
    /\ UNCHANGED ret

\* pvIndex.Index("accessmodes", probe): either a lookup error, or the partition
\* of the probe's signature in some order.
IndexOutcomes(probe) ==
    { [objs |-> o, err |-> NoErr] : o \in Orders(IndexSet(store, probe)) }
    \cup { [objs |-> <<>>, err |-> e] : e \in IndexErrors }

CallListByAccessModes(modes) ==
    /\ ret = NoCall
    /\ \E ix \in IndexOutcomes(Probe(modes, 0)) :
        LET r == ListByAccessModes(ix.objs, ix.err) IN
        ret' = [op |-> "ListByAccessModes", pv |-> Probe(modes, 0), pred |-> "none",
                objs |-> ix.objs, lookupErr |-> ix.err,
                volumes |-> r.volumes, isNil |-> r.isNil, vol |-> NilPV,
                err |-> r.err, calls |-> r.calls]
    /\ UNCHANGED <<store, moved>>

CallFind(pv, matchPredicate) ==
    /\ ret = NoCall
    /\ \E ix \in IndexOutcomes(pv) :
        LET r == Find(pv, matchPredicate, ix.objs, ix.err) IN
        ret' = [op |-> "Find", pv |-> pv, pred |-> matchPredicate,
                objs |-> ix.objs, lookupErr |-> ix.err,
                volumes |-> r.volumes, isNil |-> r.isNil, vol |-> r.vol,
                err |-> r.err, calls |-> r.calls]
    /\ UNCHANGED <<store, moved>>

CallFindByAccessModesAndStorageCapacity(modes, qty) ==
    /\ ret = NoCall
    /\ \E ix \in IndexOutcomes(Probe(modes, qty)) :
        LET r == FindByAccessModesAndStorageCapacity(modes, qty, ix.objs, ix.err) IN
        ret' = [op |-> "FindByAccessModesAndStorageCapacity", pv |-> Probe(modes, qty),
                pred |-> "filterBoundVolumes",
                objs |-> ix.objs, lookupErr |-> ix.err,
                volumes |-> r.volumes, isNil |-> r.isNil, vol |-> r.vol,
                err |-> r.err, calls |-> r.calls]
    /\ UNCHANGED <<store, moved>>

Claims == [modes : RequestModes, request : Quantities]

CallFindBestMatchForClaim(claim) ==
    /\ ret = NoCall
    /\ \E ix \in IndexOutcomes(Probe(claim.modes, claim.request)) :
        LET r == FindBestMatchForClaim(claim, ix.objs, ix.err) IN
        ret' = [op |-> "FindBestMatchForClaim", pv |-> Probe(claim.modes, claim.request),
                pred |-> "filterBoundVolumes",
                objs |-> ix.objs, lookupErr |-> ix.err,
                volumes |-> r.volumes, isNil |-> r.isNil, vol |-> r.vol,
                err |-> r.err, calls |-> r.calls]
    /\ UNCHANGED <<store, moved>>

\* The call in progress returns to the caller.
Return ==
    /\ ret # NoCall
    /\ ret' = NoCall
    /\ UNCHANGED <<store, moved>>

Next ==
    \/ \E pv \in StoredVolumes : Add(pv)
    \/ \E pv \in StoredVolumes : Update(pv)
    \/ \E pv \in StoredVolumes : Delete(pv)
    \/ \E modes \in RequestModes : CallListByAccessModes(modes)
    \/ \E modes \in RequestModes, qty \in Quantities, p \in MatchPredicates :
          CallFind(Probe(modes, qty), p)
    \/ \E modes \in RequestModes, qty \in Quantities :
          CallFindByAccessModesAndStorageCapacity(modes, qty)
    \/ \E claim \in Claims : CallFindBestMatchForClaim(claim)
    \/ Return

Spec == Init /\ [][Next]_vars

\* The operations ListByAccessModes is checked against when the history of
\* replacements is kept: the store's mutations and the listing itself.
NextHistory ==
    \/ \E pv \in StoredVolumes : Add(pv)
    \/ \E pv \in StoredVolumes : Update(pv)
    \/ \E pv \in StoredVolumes : Delete(pv)
    \/ \E modes \in RequestModes : CallListByAccessModes(modes)
    \/ Return

SpecHistory == InitHistory /\ [][NextHistory]_vars


-----------------------------------------------------------------------------
\* Vocabulary of the properties, stated on the store's contents.

SameSignature(v, probe) ==
    GetAccessModesAsString(v.modes) = GetAccessModesAsString(probe.modes)

\* The stored volumes of the probe's signature partition.
PartitionOf(probe) ==
    { store[n] : n \in { k \in DOMAIN store : SameSignature(store[k], probe) } }

\* The unbound volumes of the partition that are large enough for the probe.
Fitting(probe) ==
    { v \in PartitionOf(probe) : ~v.claimRef /\ v.cap >= probe.cap }

SmallestFitting(v, probe) ==
    /\ v \in Fitting(probe)
    /\ \A w \in Fitting(probe) : v.cap <= w.cap

BestMatch(v, probe) ==
    IF Fitting(probe) = {} THEN v = NilPV ELSE SmallestFitting(v, probe)

IsCapacityFind ==
    ret.op \in {"FindByAccessModesAndStorageCapacity", "FindBestMatchForClaim"}

IsFind == ret.op = "Find" \/ IsCapacityFind

IsQuery == ret.op = "ListByAccessModes" \/ IsFind

\* The match predicate of the call in progress, at position i of its list.
PredicateAt(i) == ApplyPredicate(ret.pred, ret.pv, ret.volumes[i])

-----------------------------------------------------------------------------
\* C1: whatever the store holds and in whatever order the index hands the
\* partition back, FindBestMatchForClaim returns the smallest unbound volume of
\* the claim's signature whose capacity is at least the request, and nil only
\* when there is none.
C1_BestMatchAlways ==
    (ret.op = "FindBestMatchForClaim" /\ ret.err = NoErr) => BestMatch(ret.vol, ret.pv)

\* C2: a volume whose claim reference is set is never the result of
\* FindByAccessModesAndStorageCapacity or FindBestMatchForClaim: every non-nil
\* result is a stored, unbound volume.
C2_ResultUnbound ==
    (IsCapacityFind /\ ret.vol # NilPV) =>
        /\ ~ret.vol.claimRef
        /\ ret.vol.name \in DOMAIN store
        /\ store[ret.vol.name] = ret.vol
        /\ \A n \in DOMAIN store : store[n].claimRef => store[n] # ret.vol

\* A bound volume that fits the request better than the result was passed over.
C2_Witness ==
    /\ IsCapacityFind
    /\ ret.vol # NilPV
    /\ \E w \in PartitionOf(ret.pv) :
          w.claimRef /\ w.cap >= ret.pv.cap /\ w.cap < ret.vol.cap

\* C3: when every volume of the claim's partition is unbound,
\* FindBestMatchForClaim returns a volume of minimum capacity among those at
\* least as large as the request (nil if there is none), whatever the order in
\* which the index handed the partition back.
C3_MinFitWhenAllUnbound ==
    (/\ ret.op = "FindBestMatchForClaim"
     /\ ret.err = NoErr
     /\ \A v \in PartitionOf(ret.pv) : ~v.claimRef)
    => BestMatch(ret.vol, ret.pv)

\* The index handed back a larger volume before a smaller one, and the smaller
\* one, which fits, is the result.
C3_Witness ==
    /\ ret.op = "FindBestMatchForClaim"
    /\ ret.err = NoErr
    /\ \A v \in PartitionOf(ret.pv) : ~v.claimRef
    /\ Len(ret.objs) >= 2
    /\ ret.objs[1].cap > ret.objs[2].cap
    /\ ret.vol # NilPV
    /\ ret.vol.cap < ret.objs[1].cap

\* C4: in the sequence ListByAccessModes returns, any two unbound volumes at
\* positions i < j have capacity[i] <= capacity[j], also when the partition
\* holds bound volumes.
C4_UnboundAscending ==
    (ret.op = "ListByAccessModes" /\ ret.err = NoErr) =>
        \A i, j \in 1..Len(ret.volumes) :
            (i < j /\ ~ret.volumes[i].claimRef /\ ~ret.volumes[j].claimRef)
                => ret.volumes[i].cap <= ret.volumes[j].cap

\* C5: Find returns the nil volume and no error whenever the lookup succeeds
\* and the match predicate is false for every volume of the probe's partition,
\* be the partition empty or not.
C5_NoMatchIsNil ==
    (/\ IsFind
     /\ ret.lookupErr = NoErr
     /\ \A v \in PartitionOf(ret.pv) : ~ApplyPredicate(ret.pred, ret.pv, v))
    => (ret.vol = NilPV /\ ret.err = NoErr)

\* Find ran over a non-empty partition none of whose volumes matches.
C5_Witness ==
    /\ ret.op = "Find"
    /\ ret.lookupErr = NoErr
    /\ PartitionOf(ret.pv) # {}
    /\ \A v \in PartitionOf(ret.pv) : ~ApplyPredicate(ret.pred, ret.pv, v)
    /\ ret.vol = NilPV
    /\ ret.err = NoErr

\* C6: every volume ListByAccessModes, Find and the capacity finds return has
\* the signature of the requested access modes; a volume of another signature
\* (more modes than requested, say) is never returned.
C6_SignatureEquality ==
    IsQuery =>
        /\ \A i \in 1..Len(ret.volumes) : SameSignature(ret.volumes[i], ret.pv)
        /\ ret.vol # NilPV => SameSignature(ret.vol, ret.pv)

\* A claim for ReadWriteOnce alone got nil although an unbound volume
\* supporting ReadWriteOnce and ReadOnlyMany is large enough.
C6_Witness ==
    /\ ret.op = "FindBestMatchForClaim"
    /\ ret.err = NoErr
    /\ ret.pv.modes = <<"ReadWriteOnce">>
    /\ ret.vol = NilPV
    /\ \E n \in DOMAIN store :
          /\ store[n].modes = <<"ReadWriteOnce", "ReadOnlyMany">>
          /\ ~store[n].claimRef
          /\ store[n].cap >= ret.pv.cap

\* C7: ListByAccessModes lists each stored key at most once, every listed
\* volume is the one now stored under its key, and a volume replaced by one of
\* another signature is not listed under the signature it left.
C7_ListedOnce ==
    (ret.op = "ListByAccessModes" /\ ret.err = NoErr) =>
        /\ \A i, j \in 1..Len(ret.volumes) :
              ret.volumes[i].name = ret.volumes[j].name => i = j
        /\ \A i \in 1..Len(ret.volumes) :
              /\ ret.volumes[i].name \in DOMAIN store
              /\ store[ret.volumes[i].name] = ret.volumes[i]
        /\ { ret.volumes[i] : i \in 1..Len(ret.volumes) } = PartitionOf(ret.pv)
        /\ (moved \in Names /\ ~SameSignature(store[moved], ret.pv)) =>
              \A i \in 1..Len(ret.volumes) : ret.volumes[i].name # moved

\* A stored volume was replaced by one of another signature, and the listing of
\* the other signature, which still holds volumes, does not show its key.
C7_Witness ==
    /\ ret.op = "ListByAccessModes"
    /\ ret.err = NoErr
    /\ moved \in Names
    /\ ~SameSignature(store[moved], ret.pv)
    /\ Len(ret.volumes) >= 2
    /\ \A i \in 1..Len(ret.volumes) : ret.volumes[i].name # moved

\* C8: a query returns an error exactly when the store's indexed lookup
\* returned one; then the error is the store's, the returned list and volume
\* are nil, and the only call made is the one lookup.
C8_ErrorIffLookupError ==
    IsQuery =>
        /\ (ret.err # NoErr) <=> (ret.lookupErr # NoErr)
        /\ ret.lookupErr # NoErr =>
              /\ ret.err = ret.lookupErr
              /\ ret.isNil
              /\ ret.volumes = <<>>
              /\ ret.vol = NilPV
              /\ ret.calls = <<"Index">>
        /\ Cardinality({ i \in 1..Len(ret.calls) : ret.calls[i] = "Index" }) = 1

\* The lookup failed for a claim whose partition holds a fitting volume.
C8_Witness ==
    /\ ret.op = "FindBestMatchForClaim"
    /\ ret.lookupErr \in IndexErrors
    /\ ret.err = ret.lookupErr
    /\ Fitting(ret.pv) # {}

\* C9: over the list FindByAccessModesAndStorageCapacity searches, the
\* predicate filterBoundVolumes(probe, volumes[i]) is monotonic (true at i,
\* true at every j > i), and the result is the first volume at which it holds.
C9_PredicateMonotonic ==
    (IsCapacityFind /\ ret.err = NoErr) =>
        /\ \A i, j \in 1..Len(ret.volumes) :
              (i < j /\ PredicateAt(i)) => PredicateAt(j)
        /\ \A i \in 1..Len(ret.volumes) :
              (PredicateAt(i) /\ \A k \in 1..(i - 1) : ~PredicateAt(k))
                  => ret.vol = ret.volumes[i]

\* C10: in every sequence ListByAccessModes returns, no bound volume stands
\* before an unbound one.
C10_BoundSortLast ==
    (ret.op = "ListByAccessModes" /\ ret.err = NoErr) =>
        \A i, j \in 1..Len(ret.volumes) :
            (i < j /\ ret.volumes[i].claimRef) => ret.volumes[j].claimRef

====
